---- MODULE Spec2Model ----
(***************************************************************************)
(* The crawl engine of jfcard-merchant-google-maps: main -> createMaps ->  *)
(* getMerchantFromSearchResult -> convertDetailToMerchantObj, in the two   *)
(* versions the repository holds (src/app.ts and the later, null-checked   *)
(* file).  The web site is the environment: every DOM read draws its       *)
(* result from the values the puppeteer call can return.                   *)
(***************************************************************************)
EXTENDS Naturals, Sequences, FiniteSets, TLC

VARIABLES
  variant,        \* which of the two source files runs
  pc,             \* position of the (single) async control flow
  err,            \* kind of the error that ended the run, or "none"
  numTargets,     \* length of selectedPrefs
  prefIdx,        \* index of the region being processed
  prefName,       \* createMaps: prefecturesName / prefName
  genreCount,     \* createMaps: genreHandles.length
  genreIdx,       \* createMaps: position of the for-of loop
  genreName,      \* createMaps: genreName
  prefMerchants,  \* createMaps: prefMerchants / prefStores
  merchants,      \* getMerchantFromSearchResult: merchants / stores
  pageNumber,     \* getMerchantFromSearchResult: pageNumber
  hasNextPage,    \* getMerchantFromSearchResult: hasNextPage
  details,        \* the rows of the page as enumerated by page.$$
  pending,        \* indices of details whose extraction promise is unsettled
  picked,         \* results of the settled extractions, by index
  clickDone,      \* Promise.all: the click promise has resolved
  waitDone,       \* Promise.all: the waitForSelector promise has resolved
  files,          \* path -> the array last handed to stringify/writeFileSync
  writes,         \* the paths written, in order
  uiPage,         \* site: page of the result list currently displayed
  rendering,      \* site: transition still being rendered, or "none"
  selected,       \* site: categories currently toggled on
  toggles,        \* number of clicks each category selector received
  dirty,          \* a state-changing action was issued, no wait resolved since
  lastOp,         \* the last puppeteer operation issued
  visited,        \* pages enumerated by the running pagination pass
  nextTrue,       \* hasNextPageButton results of true in the running pass
  advances,       \* next-page transitions completed in the running pass
  genreLog,       \* genreHandles.length of every region entered so far
  rowsLeft,       \* rows the site may still list in this run
  oddLeft,        \* irregular reads (no node, null, empty, non-numeric) left
  errAt,          \* position at which the error was thrown, or "none"
  closes,         \* number of times browser.close() was called
  fresh,          \* handles obtained since the last action that changed the UI
  acted,          \* the handles the last handle operation acted on
  order           \* indices of the current page's rows, in completion order

vars == <<variant, pc, err, numTargets, prefIdx, prefName, genreCount, genreIdx,
          genreName, prefMerchants, merchants, pageNumber, hasNextPage, details,
          pending, picked, clickDone, waitDone, files, writes, uiPage, rendering,
          selected, toggles, dirty, lastOp, visited, nextTrue, advances, genreLog,
          rowsLeft, oddLeft, errAt, closes, fresh, acted, order>>

(***************************************************************************)
(* Bounds of the model.                                                    *)
(***************************************************************************)
\* targets in selectedPrefs (main's literal holds one)
MaxTargets == 2
\* categories the site lists under a region
MaxGenres == 2
\* pages of one result list
MaxPages == 2
\* rows on one page
MaxRows == 2
\* rows the site lists over the whole run
MaxMerchants == 4
\* reads over the whole run that give something else than the regular text
MaxOdd == 1

(***************************************************************************)
(* Values.                                                                 *)
(***************************************************************************)
AppTs == "src/app.ts"
MainTs == "part_000"
Variants == {AppTs, MainTs}

\* What a DOM read can give: $eval throws when no node matches (NoNode),
\* textContent / getAttribute may be null, or the text itself.
NoNode == "<no node>"
Null == "<null>"
RegName == "name"
RegAddr == "addr"
TitleReads == {NoNode, Null, "", RegName}
AddressReads == {NoNode, Null, "", RegAddr}
PrefLabels == <<"P1", "P2", "P3", "P4">>
GenreLabels == <<"G1", "G2", "G3", "G4">>
\* A JavaScript number: an integer, or NaN.
Num(n) == [nan |-> FALSE, n |-> n]
NaN == [nan |-> TRUE, n |-> 0]
\* The text of the selected pagination control: none selected, digits, other.
Digits == "<digits>"
NonNumeric == "<text>"
PageReads == {NoNode, Digits, NonNumeric}

Irregular(t) == t \in {NoNode, Null, "", NonNumeric}
OddCount(row) == (IF Irregular(row.title) THEN 1 ELSE 0)
                   + (IF Irregular(row.address) THEN 1 ELSE 0)

Ok(v) == [ok |-> TRUE, val |-> v]
Fail(kind) == [ok |-> FALSE, val |-> kind]

\* A template literal renders null as the text "null".
Str(t) == IF t = Null THEN "null" ELSE t

Hole == [name |-> "<pending>", address |-> "<pending>", genre |-> "<pending>"]

RECURSIVE SumRows(_)
SumRows(s) == IF s = <<>> THEN 0 ELSE Head(s).rows + SumRows(Tail(s))

RECURSIVE OddTotal(_)
OddTotal(s) == IF s = <<>> THEN 0 ELSE OddCount(Head(s)) + OddTotal(Tail(s))

(***************************************************************************)
(* Pure functions of the source.                                           *)
(***************************************************************************)
\* part_000 getPrefecturesName
getPrefecturesName(read) ==
  IF read = NoNode THEN Fail("SelectionError")
  ELSE IF read = Null THEN Fail("SelectionError")
  ELSE Ok(read)

\* app.ts createMaps line 109: no null check
appPrefName(read) ==
  IF read = NoNode THEN Fail("SelectionError") ELSE Ok(read)

\* part_000 getGenreName
getGenreName(read) ==
  IF read = NoNode THEN Fail("SelectionError")
  ELSE IF read = Null THEN Fail("SelectionError")
  ELSE Ok(read)

\* app.ts createMaps line 117: no null check
appGenreName(read) ==
  IF read = NoNode THEN Fail("SelectionError") ELSE Ok(read)

\* getNowPagination / pickCurrentPageNumber: Number(textContent) of the
\* selected control; $eval throws when no control is selected.
getNowPagination(read, shown) ==
  IF read = NoNode THEN Fail("PaginationReadError")
  ELSE IF read = Digits THEN Ok(Num(shown))
  ELSE Ok(NaN)

\* Mutant: the null check on the address is missing.
ConvertWithoutAddressCheck(row, genre) ==
  IF row.title = NoNode THEN Fail("ExtractionError")
  ELSE IF row.title = Null THEN Fail("ExtractionError")
  ELSE IF row.address = NoNode THEN Fail("ExtractionError")
  ELSE Ok([name |-> row.title, address |-> row.address, genre |-> genre])

\* part_000 convertDetailToMerchantObj
convertDetailToMerchantObj(row, genre) ==
  IF row.title = NoNode THEN Fail("ExtractionError")
  ELSE IF row.title = Null THEN Fail("ExtractionError")
  ELSE IF row.address = NoNode THEN Fail("ExtractionError")
  ELSE IF row.address = Null THEN Fail("ExtractionError")
  ELSE Ok([name |-> row.title, address |-> row.address, genre |-> genre])

\* app.ts detailToStoreObj: only $eval's own throw
detailToStoreObj(row, genre) ==
  IF row.title = NoNode THEN Fail("ExtractionError")
  ELSE IF row.address = NoNode THEN Fail("ExtractionError")
  ELSE Ok([name |-> row.title, address |-> row.address, genre |-> genre])

\* Mutant: the record is labelled with the region instead of the category.
ExtractWithRegionLabel(v, row, genre) ==
  IF v = MainTs THEN convertDetailToMerchantObj(row, prefName)
  ELSE detailToStoreObj(row, prefName)

Extract(v, row, genre) ==
  IF v = MainTs THEN convertDetailToMerchantObj(row, genre)
  ELSE detailToStoreObj(row, genre)

\* The search summary read of createMaps.
searchResultText(v, read) ==
  IF read = NoNode THEN Fail("SearchSummaryError")
  ELSE IF v = MainTs /\ read = Null THEN Fail("SearchSummaryError")
  ELSE Ok(read)

\* saveMerchantsToCSVFile / createCSVFile: the path written
CsvPath(pref, genre) == "./dist/" \o Str(pref) \o "-" \o Str(genre) \o ".csv"

\* fs.writeFileSync replaces the file at path
WriteFile(f, path, content) ==
  [p \in DOMAIN f \cup {path} |-> IF p = path THEN content ELSE f[p]]

\* Mutant: the accumulator is overwritten instead of extended.
PushAllReplace(acc, results) == results

\* merchants.push(...pickedMerchants): Promise.all keeps the input order
PushAll(acc, results) == acc \o results

\* A state-changing click on a selector toggles it.
Toggle(S, g) == IF g \in S THEN S \ {g} ELSE S \cup {g}

\* A puppeteer operation as issued: its kind, and whether a state-changing
\* action was still unsettled when it was issued.
Issue(kind) == [kind |-> kind, unsettled |-> dirty]

\* The handles an operation acts on, each with whether the UI was changed
\* since the handle was obtained.
Act(names) == {[name |-> h, stale |-> h \notin fresh] : h \in names}
\* A handle obtained by the statement that acts on it.
JustObtained(h) == [name |-> h, stale |-> FALSE]

\* Mutant: the results are kept in the order the extractions complete.
SettleInCompletionOrder(p, i, v) ==
  LET k == CHOOSE j \in 1..Len(p) :
             /\ p[j].name = "<pending>"
             /\ \A h \in 1..(j - 1) : p[h].name # "<pending>"
  IN [p EXCEPT ![k] = v]

\* Promise.all: the value of the i-th promise goes to the i-th place of the
\* result, whenever it settles.
Settle(p, i, v) == [p EXCEPT ![i] = v]

\* Mutant: the pagination pass catches the error and returns what it has.
RaiseReturnsPartial(kind) == pc' = "collect_return" /\ err' = kind /\ errAt' = pc

\* Mutant: the category loop catches the error and goes on.
RaiseSkipsCategory(kind) == pc' = "genre_deselect" /\ err' = kind /\ errAt' = pc

\* Mutant: main closes the browser in a finally block.
RaiseCloses(kind) == pc' = "close" /\ err' = kind /\ errAt' = pc

\* No try/catch anywhere: a throw unwinds createMaps and main.
Raise(kind) == pc' = "error" /\ err' = kind /\ errAt' = pc

(***************************************************************************)
(* Initial state: main has launched the browser, opened the page and       *)
(* enumerated the regions; selectedPrefs holds numTargets of them (the     *)
(* source's literal is [17], one region).                                  *)
(***************************************************************************)
Init ==
  /\ variant \in Variants
  /\ numTargets \in 1..MaxTargets
  /\ pc = "pref_name"
  /\ err = "none"
  /\ prefIdx = 1
  /\ prefName = ""
  /\ genreCount = 0
  /\ genreIdx = 0
  /\ genreName = ""
  /\ prefMerchants = <<>>
  /\ merchants = <<>>
  /\ pageNumber = Num(0)
  /\ hasNextPage = FALSE
  /\ details = <<>>
  /\ pending = {}
  /\ picked = <<>>
  /\ clickDone = FALSE
  /\ waitDone = FALSE
  /\ files = <<>>
  /\ writes = <<>>
  /\ uiPage = 1
  /\ rendering = "none"
  /\ selected = {}
  /\ toggles = <<>>
  /\ dirty = FALSE
  /\ lastOp = [kind |-> "none", unsettled |-> FALSE]
  /\ visited = <<>>
  /\ nextTrue = 0
  /\ advances = 0
  /\ genreLog = <<>>
  /\ rowsLeft = MaxMerchants
  /\ oddLeft = MaxOdd
  /\ errAt = "none"
  /\ closes = 0
  /\ fresh = {"pref"}
  /\ acted = {}
  /\ order = <<>>

\* Groups of variables an action leaves alone.
regionVars == <<numTargets, prefIdx, prefName>>
genreVars == <<genreCount, genreIdx, genreName>>
collectVars == <<merchants, pageNumber, hasNextPage, details, pending, picked,
                 visited, nextTrue, advances>>
allVars == <<clickDone, waitDone>>
fileVars == <<files, writes>>
siteVars == <<uiPage, rendering, selected, toggles>>

\* The labels the site has already shown in this run: a region's categories
\* carry pairwise different labels, and so do the regions.  No category is
\* labelled "all", the name createMaps gives the aggregate.
UsedPaths == DOMAIN files
FreshGenreLabel(l) == CsvPath(prefName, l) \notin UsedPaths
FreshPrefLabel(l) == \A i \in 1..Len(writes) : writes[i] # CsvPath(l, "all")

(***************************************************************************)
(* createMaps                                                              *)
(***************************************************************************)
\* lines 169 / app 109: read the region's label
GetPrefecturesName ==
  /\ pc = "pref_name"
  /\ \E read \in {NoNode, Null, "", PrefLabels[prefIdx]} :
       /\ Irregular(read) => oddLeft > 0
       /\ oddLeft' = IF Irregular(read) THEN oddLeft - 1 ELSE oddLeft
       /\ FreshPrefLabel(read)
       /\ LET r == IF variant = MainTs THEN getPrefecturesName(read)
                   ELSE appPrefName(read)
          IN IF r.ok
             THEN /\ prefName' = r.val
                  /\ pc' = "pref_expand"
                  /\ err' = err /\ errAt' = errAt
             ELSE /\ Raise(r.val)
                  /\ prefName' = prefName
  /\ prefMerchants' = <<>>
  /\ lastOp' = Issue("read")
  /\ acted' = Act({"pref"})
  /\ UNCHANGED <<variant, closes, fresh, order, rowsLeft, genreLog, numTargets, prefIdx, genreVars, collectVars, allVars,
                 fileVars, siteVars, dirty>>

\* lines 172-180 / app 112: find the expansion link and click it
PrefExpand ==
  /\ pc = "pref_expand"
  /\ \E found \in BOOLEAN :
       IF found
       THEN /\ pc' = "pref_wait"
            /\ err' = err /\ errAt' = errAt
            /\ dirty' = TRUE
            /\ rendering' = "expand"
            /\ lastOp' = Issue("click")
            /\ acted' = Act({"pref"}) \cup {JustObtained("prefLink")}
            /\ fresh' = {}
       ELSE /\ Raise("SelectionError")
            /\ lastOp' = Issue("read")
            /\ acted' = Act({"pref"})
            /\ UNCHANGED <<dirty, rendering, fresh>>
  /\ UNCHANGED <<variant, closes, order, rowsLeft, genreLog, regionVars, genreVars, prefMerchants, collectVars,
                 allVars, fileVars, uiPage, selected, toggles, oddLeft>>

\* A fixed delay (page.waitForTimeout(3000)): taken to outlast the site's
\* re-rendering, as the source's author assumes.
Delay(from, to) ==
  /\ pc = from
  /\ rendering = "none"
  /\ pc' = to
  /\ dirty' = FALSE
  /\ lastOp' = Issue("wait")
  /\ UNCHANGED <<variant, closes, fresh, acted, order, rowsLeft, genreLog, err, errAt, regionVars, genreVars, prefMerchants, fileVars,
                 siteVars, oddLeft>>

\* lines 181 / app 113
PrefWait ==
  /\ Delay("pref_wait", "genre_list")
  /\ UNCHANGED <<collectVars, allVars>>

\* Mutant: the loop stops one category early.
LoopNextSkipsLast(g, m) == IF g + 1 < m THEN "genre_name" ELSE "save_all"

\* Where the for-of loop goes after the body ran for category g of m.
LoopNext(g, m) == IF g < m THEN "genre_name" ELSE "save_all"

\* lines 183-184 / app 115-116: enumerate the categories, enter the loop
GetGenreElementHandles ==
  /\ pc = "genre_list"
  /\ \E m \in 0..MaxGenres :
       /\ genreCount' = m
       /\ genreIdx' = 1
       /\ toggles' = [g \in 1..m |-> 0]
       /\ genreLog' = Append(genreLog, m)
       /\ pc' = LoopNext(0, m)
  /\ genreName' = genreName
  /\ lastOp' = Issue("read")
  /\ fresh' = fresh \cup {"genreHandle"}
  /\ UNCHANGED <<variant, closes, acted, order, rowsLeft, err, errAt, regionVars, prefMerchants, collectVars, allVars,
                 fileVars, uiPage, rendering, selected, dirty, oddLeft>>

\* lines 185 / app 117: read the category's label
GetGenreName ==
  /\ pc = "genre_name"
  /\ \E read \in {NoNode, Null, "", GenreLabels[genreIdx]} :
       /\ Irregular(read) => oddLeft > 0
       /\ oddLeft' = IF Irregular(read) THEN oddLeft - 1 ELSE oddLeft
       /\ FreshGenreLabel(read)
       /\ LET r == IF variant = MainTs THEN getGenreName(read)
                   ELSE appGenreName(read)
          IN IF r.ok
             THEN /\ genreName' = r.val
                  /\ pc' = "genre_select"
                  /\ err' = err /\ errAt' = errAt
             ELSE /\ Raise(r.val)
                  /\ genreName' = genreName
  /\ lastOp' = Issue("read")
  /\ acted' = Act({"genreHandle"})
  /\ UNCHANGED <<variant, closes, fresh, order, rowsLeft, genreLog, regionVars, genreCount, genreIdx, prefMerchants,
                 collectVars, allVars, fileVars, siteVars, dirty>>

\* lines 187-191 / app 119-120: find the category's link and click it
GenreSelect ==
  /\ pc = "genre_select"
  /\ \E found \in BOOLEAN :
       IF found
       THEN /\ pc' = "genre_wait"
            /\ err' = err /\ errAt' = errAt
            /\ selected' = Toggle(selected, genreIdx)
            /\ toggles' = [toggles EXCEPT ![genreIdx] = @ + 1]
            /\ dirty' = TRUE
            /\ rendering' = "toggle"
            /\ lastOp' = Issue("click")
            /\ acted' = Act({"genreHandle"}) \cup {JustObtained("genreSelect")}
            /\ fresh' = {}
       ELSE /\ Raise("SelectionError")
            /\ lastOp' = Issue("read")
            /\ acted' = Act({"genreHandle"})
            /\ UNCHANGED <<selected, toggles, dirty, rendering, fresh>>
  /\ UNCHANGED <<variant, closes, order, rowsLeft, genreLog, regionVars, genreVars, prefMerchants, collectVars,
                 allVars, fileVars, uiPage, oddLeft>>

\* lines 192 / app 121
GenreWait ==
  /\ Delay("genre_wait", "search_all")
  /\ UNCHANGED <<collectVars, allVars>>
\* One promise of a Promise.all([click, waitForSelector]): the click.
\* page.click throws when the selector matches nothing.
AllClick(at, transition) ==
  /\ pc = at
  /\ ~clickDone
  /\ \E found \in BOOLEAN :
       IF found
       THEN /\ clickDone' = TRUE
            /\ dirty' = TRUE
            /\ rendering' = transition
            /\ fresh' = {}
            /\ UNCHANGED <<pc, err, errAt>>
       ELSE /\ Raise("SelectionError")
            /\ UNCHANGED <<clickDone, dirty, rendering, fresh>>
  /\ lastOp' = Issue("click")
  /\ UNCHANGED <<variant, closes, acted, order, rowsLeft, genreLog, regionVars, genreVars, prefMerchants, collectVars,
                 waitDone, fileVars, uiPage, selected, toggles, oddLeft>>

\* The other promise: waitForSelector('#search_result_lists', visible).  It
\* polls from the moment it is issued, so it may resolve on the list that
\* is displayed before the click takes effect; it rejects on its timeout.
AllWaitForSelector(at) ==
  /\ pc = at
  /\ ~waitDone
  /\ \E visible \in BOOLEAN :
       IF visible
       THEN /\ waitDone' = TRUE
            /\ dirty' = IF clickDone THEN FALSE ELSE dirty
            /\ UNCHANGED <<pc, err, errAt>>
       ELSE /\ Raise("TimeoutError")
            /\ UNCHANGED <<waitDone, dirty>>
  /\ lastOp' = Issue("wait")
  /\ UNCHANGED <<variant, closes, fresh, acted, order, rowsLeft, genreLog, regionVars, genreVars, prefMerchants, collectVars,
                 clickDone, fileVars, siteVars, oddLeft>>

\* The await of the Promise.all, then the fixed delay that follows it.
AllDelay(at, to) ==
  /\ clickDone /\ waitDone
  /\ Delay(at, to)
  /\ clickDone' = FALSE
  /\ waitDone' = FALSE

\* lines 195-198 / app 124-127
SearchClick == AllClick("search_all", "search")
SearchWaitForSelector == AllWaitForSelector("search_all")
\* lines 199 / app 128
SearchDelay == AllDelay("search_all", "page_size") /\ UNCHANGED collectVars

\* lines 202 / app 131: page.select throws when the control is missing
SelectPageSize ==
  /\ pc = "page_size"
  /\ \E found \in BOOLEAN :
       IF found
       THEN /\ pc' = "page_size_wait"
            /\ err' = err /\ errAt' = errAt
            /\ dirty' = TRUE
            /\ rendering' = "size"
            /\ fresh' = {}
       ELSE /\ Raise("SelectionError")
            /\ UNCHANGED <<dirty, rendering, fresh>>
  /\ lastOp' = Issue("select")
  /\ UNCHANGED <<variant, closes, acted, order, rowsLeft, genreLog, regionVars, genreVars, prefMerchants, collectVars,
                 allVars, fileVars, uiPage, selected, toggles, oddLeft>>

\* lines 203 / app 132
PageSizeWait ==
  /\ Delay("page_size_wait", "search_text")
  /\ UNCHANGED <<collectVars, allVars>>

\* lines 205-212 / app 134-135: the result-count summary
ReadSearchResult ==
  /\ pc = "search_text"
  /\ \E read \in {NoNode, Null, "summary"} :
       /\ Irregular(read) => oddLeft > 0
       /\ oddLeft' = IF Irregular(read) THEN oddLeft - 1 ELSE oddLeft
       /\ LET r == searchResultText(variant, read)
          IN IF r.ok THEN pc' = "collect_start" /\ err' = err /\ errAt' = errAt
             ELSE Raise(r.val)
  /\ lastOp' = Issue("read")
  /\ UNCHANGED <<variant, closes, fresh, acted, order, rowsLeft, genreLog, regionVars, genreVars, prefMerchants, collectVars,
                 allVars, fileVars, siteVars, dirty>>

(***************************************************************************)
(* getMerchantFromSearchResult / pickStores                                *)
(***************************************************************************)
\* One read of the current page number, shared by the two call sites.
ReadPage(at, to) ==
  /\ pc = at
  /\ \E read \in PageReads :
       /\ Irregular(read) => oddLeft > 0
       /\ oddLeft' = IF Irregular(read) THEN oddLeft - 1 ELSE oddLeft
       /\ LET r == getNowPagination(read, uiPage)
          IN IF r.ok
             THEN /\ pageNumber' = r.val
                  /\ pc' = to
                  /\ err' = err /\ errAt' = errAt
             ELSE /\ Raise(r.val)
                  /\ pageNumber' = pageNumber
  /\ lastOp' = Issue("read")
  /\ UNCHANGED <<variant, closes, fresh, acted, order, rowsLeft, genreLog, regionVars, genreVars, prefMerchants, details, pending,
                 picked, allVars, fileVars, siteVars, dirty>>

\* lines 124-127 / app 60-63: the locals, and the first page-number read
CollectStart ==
  /\ ReadPage("collect_start", "page_number")
  /\ merchants' = <<>>
  /\ hasNextPage' = TRUE
  /\ visited' = <<>>
  /\ nextTrue' = 0
  /\ advances' = 0

\* lines 128-130 / app 64-66: loop head
ReadPageNumber ==
  /\ hasNextPage
  /\ ReadPage("page_number", "enumerate")
  /\ UNCHANGED <<merchants, hasNextPage, visited, nextTrue, advances>>

\* The rows a page can show: up to MaxRows of the rows the site still has,
\* irregular texts within budget.
RowsOnPage == 0..(IF rowsLeft < MaxRows THEN rowsLeft ELSE MaxRows)
RowSets(n) ==
  {d \in [1..n -> [title : TitleReads, address : AddressReads]] :
     OddTotal(d) <= oddLeft}

\* lines 133-134 / app 69-70: enumerate the rows, start one extraction each
EnumerateDetails ==
  /\ pc = "enumerate"
  /\ \E n \in RowsOnPage : \E d \in RowSets(n) :
       /\ details' = d
       /\ pending' = 1..n
       /\ picked' = [i \in 1..n |-> Hole]
       /\ visited' = Append(visited, [page |-> uiPage, rows |-> n])
       /\ oddLeft' = oddLeft - OddTotal(d)
       /\ rowsLeft' = rowsLeft - n
  /\ pc' = "extract"
  /\ order' = <<>>
  /\ lastOp' = Issue("read")
  /\ UNCHANGED <<variant, closes, fresh, acted, genreLog, err, errAt, regionVars, genreVars, prefMerchants, merchants,
                 pageNumber, hasNextPage, nextTrue, advances, allVars, fileVars,
                 siteVars, dirty>>

\* One extraction promise settles.  Promise.all rejects with the first
\* rejection; the extractions still pending then run on, detached.
ExtractDetail ==
  /\ pc \in {"extract", "error"}
  /\ \E i \in pending :
       /\ pending' = pending \ {i}
       /\ LET r == Extract(variant, details[i], genreName)
          IN IF pc = "error"
             THEN UNCHANGED <<pc, err, errAt, picked, order>>
             ELSE IF r.ok
             THEN /\ picked' = Settle(picked, i, r.val)
                  /\ order' = Append(order, i)
                  /\ UNCHANGED <<pc, err, errAt>>
             ELSE /\ Raise(r.val)
                  /\ UNCHANGED <<picked, order>>
  /\ lastOp' = Issue("read")
  /\ UNCHANGED <<variant, closes, fresh, acted, rowsLeft, genreLog, regionVars, genreVars, prefMerchants, merchants,
                 pageNumber, hasNextPage, details, visited, nextTrue, advances,
                 allVars, fileVars, siteVars, dirty, oddLeft>>

\* Mutant: the loop goes on without awaiting the extractions.
PushPickedEarly ==
  /\ pc = "extract"
  /\ merchants' = PushAll(merchants, picked)
  /\ pc' = "has_next"
  /\ UNCHANGED <<variant, closes, fresh, acted, order, rowsLeft, genreLog, err,
                 errAt, regionVars, genreVars, prefMerchants, pageNumber,
                 hasNextPage, details, pending, picked, visited, nextTrue,
                 advances, allVars, fileVars, siteVars, dirty, lastOp, oddLeft>>

\* lines 134-135 / app 70-71: Promise.all fulfils, the page is pushed
PushPicked ==
  /\ pc = "extract"
  /\ pending = {}
  /\ merchants' = PushAll(merchants, picked)
  /\ pc' = "has_next"
  /\ UNCHANGED <<variant, closes, fresh, acted, order, rowsLeft, genreLog, err, errAt, regionVars, genreVars, prefMerchants, pageNumber,
                 hasNextPage, details, pending, picked, visited, nextTrue,
                 advances, allVars, fileVars, siteVars, dirty, lastOp, oddLeft>>

\* Mutant: the loop ends whatever hasNextPageButton answered.
AfterHasNextReturns(b) == "collect_return"

\* Where the loop goes after hasNextPageButton answered b.
AfterHasNext(b) == IF b THEN "next_all" ELSE "collect_return"

\* lines 137-139 / app 73-75: the site offers at most MaxPages pages
HasNextPageButton ==
  /\ pc = "has_next"
  /\ \E b \in BOOLEAN :
       /\ b => uiPage < MaxPages
       /\ hasNextPage' = b
       /\ nextTrue' = IF b THEN nextTrue + 1 ELSE nextTrue
       /\ pc' = AfterHasNext(b)
  /\ lastOp' = Issue("read")
  /\ UNCHANGED <<variant, closes, fresh, acted, order, rowsLeft, genreLog, err, errAt, regionVars, genreVars, prefMerchants, merchants,
                 pageNumber, details, pending, picked, visited, advances, allVars,
                 fileVars, siteVars, dirty, oddLeft>>

\* searchResultNextPageToTransition, lines 59-62 / app 76-79
NextClick == AllClick("next_all", "next")
NextWaitForSelector == AllWaitForSelector("next_all")
\* lines 63 / app 80
NextDelay ==
  /\ AllDelay("next_all", "page_number")
  /\ advances' = advances + 1
  /\ UNCHANGED <<merchants, pageNumber, hasNextPage, details, pending, picked,
                 visited, nextTrue>>
\* lines 144, 214-215 / app 84, 137-138: return, and push into the region's list
CollectReturn ==
  /\ pc = "collect_return"
  /\ prefMerchants' = PushAll(prefMerchants, merchants)
  /\ pc' = "save_genre"
  \* the callee's other locals are gone
  /\ pageNumber' = Num(0)
  /\ details' = <<>>
  /\ picked' = <<>>
  /\ visited' = <<>>
  /\ nextTrue' = 0
  /\ advances' = 0
  /\ order' = <<>>
  /\ UNCHANGED <<variant, closes, fresh, acted, rowsLeft, genreLog, err, errAt, regionVars, genreVars, merchants, hasNextPage,
                 pending, allVars, fileVars, siteVars, dirty, lastOp, oddLeft>>

(***************************************************************************)
(* createMaps, after the pagination pass                                   *)
(***************************************************************************)
\* saveMerchantsToCSVFile / createCSVFile
Save(list, pref, genre) ==
  /\ files' = WriteFile(files, CsvPath(pref, genre), list)
  /\ writes' = Append(writes, CsvPath(pref, genre))

\* Mutant: the category's list is not persisted in the loop body.
SaveGenreSkipped ==
  /\ pc = "save_genre"
  /\ pc' = "genre_deselect"
  /\ UNCHANGED <<variant, closes, fresh, acted, order, rowsLeft, genreLog, err,
                 errAt, regionVars, genreVars, prefMerchants, collectVars,
                 allVars, fileVars, siteVars, dirty, lastOp, oddLeft>>

\* lines 217 / app 140
SaveGenre ==
  /\ pc = "save_genre"
  /\ Save(merchants, prefName, genreName)
  /\ pc' = "genre_deselect"
  /\ UNCHANGED <<variant, closes, fresh, acted, order, rowsLeft, genreLog, err, errAt, regionVars, genreVars, prefMerchants, collectVars,
                 allVars, siteVars, dirty, lastOp, oddLeft>>

\* Mutant: the category is not toggled back at the end of the loop body.
GenreDeselectMissing ==
  /\ pc = "genre_deselect"
  /\ genreIdx' = genreIdx + 1
  /\ pc' = LoopNext(genreIdx, genreCount)
  /\ merchants' = <<>>
  /\ genreName' = ""
  /\ UNCHANGED <<variant, closes, fresh, acted, order, rowsLeft, genreLog, err, errAt, regionVars, genreCount,
                 prefMerchants, pageNumber, hasNextPage, details, pending, picked,
                 visited, nextTrue, advances, allVars, fileVars, siteVars, dirty,
                 lastOp, oddLeft>>

\* lines 219-220 / app 142-143: toggle the category back; no wait follows
GenreDeselect ==
  /\ pc = "genre_deselect"
  /\ \E attached \in BOOLEAN :
       IF attached
       THEN /\ selected' = Toggle(selected, genreIdx)
            /\ toggles' = [toggles EXCEPT ![genreIdx] = @ + 1]
            /\ dirty' = TRUE
            /\ rendering' = "toggle"
            /\ genreIdx' = genreIdx + 1
            /\ pc' = LoopNext(genreIdx, genreCount)
            /\ err' = err /\ errAt' = errAt
            \* the loop body's locals are gone
            /\ merchants' = <<>>
            /\ genreName' = ""
            /\ fresh' = {}
       ELSE /\ Raise("SelectionError")
            /\ UNCHANGED <<selected, toggles, dirty, rendering, genreIdx,
                           merchants, genreName, fresh>>
  /\ lastOp' = Issue("click")
  /\ acted' = Act({"genreSelect"})
  /\ UNCHANGED <<variant, closes, order, rowsLeft, genreLog, regionVars, genreCount, prefMerchants, pageNumber,
                 hasNextPage, details, pending, picked, visited, nextTrue,
                 advances, allVars, fileVars, uiPage, oddLeft>>

\* Mutant: createMaps goes to the next region without saving the aggregate.
SaveAllSkipped ==
  /\ pc = "save_all"
  /\ pc' = "next_pref"
  /\ UNCHANGED <<variant, closes, fresh, acted, order, rowsLeft, genreLog, err,
                 errAt, regionVars, genreVars, prefMerchants, collectVars,
                 allVars, fileVars, siteVars, dirty, lastOp, oddLeft>>

\* lines 222 / app 145
SaveAll ==
  /\ pc = "save_all"
  /\ Save(prefMerchants, prefName, "all")
  /\ pc' = "next_pref"
  /\ UNCHANGED <<variant, closes, fresh, acted, order, rowsLeft, genreLog, err, errAt, regionVars, genreVars, prefMerchants, collectVars,
                 allVars, siteVars, dirty, lastOp, oddLeft>>

\* Mutant: the loop over the targets ends after the first one.
AfterRegionStops(i, n) == "close"

\* main's loop (lines 245-247 / app 164-166) after createMaps returned for
\* target i of n
AfterRegion(i, n) == IF i < n THEN "pref_name" ELSE "close"

\* lines 225-229 / app 148, then back in main
NextPrefLink ==
  /\ pc = "next_pref"
  /\ \E found \in BOOLEAN :
       IF found
       THEN /\ dirty' = TRUE
            /\ rendering' = "region"
            /\ prefIdx' = prefIdx + 1
            /\ pc' = AfterRegion(prefIdx, numTargets)
            /\ err' = err /\ errAt' = errAt
            /\ lastOp' = Issue("click")
            /\ fresh' = {}
       ELSE /\ Raise("NavigationError")
            /\ lastOp' = Issue("read")
            /\ UNCHANGED <<dirty, rendering, prefIdx, fresh>>
  /\ UNCHANGED <<variant, closes, acted, order, rowsLeft, genreLog, numTargets, prefName, genreVars, prefMerchants,
                 collectVars, allVars, fileVars, uiPage, selected, toggles,
                 oddLeft>>

\* main line 249 / app 168
BrowserClose ==
  /\ pc = "close"
  /\ pc' = "done"
  /\ closes' = closes + 1
  /\ UNCHANGED <<variant, fresh, acted, order, rowsLeft, genreLog, err, errAt, regionVars, genreVars, prefMerchants, collectVars,
                 allVars, fileVars, siteVars, dirty, lastOp, oddLeft>>

(***************************************************************************)
(* The site                                                                *)
(***************************************************************************)
\* The site finishes rendering the transition the last action started.
SiteRender ==
  /\ rendering # "none"
  /\ rendering' = "none"
  /\ uiPage' = IF rendering = "next" THEN uiPage + 1
               ELSE IF rendering \in {"search", "size"} THEN 1
               ELSE uiPage
  /\ UNCHANGED <<variant, closes, fresh, acted, order, rowsLeft, genreLog, pc, err, errAt, regionVars, genreVars, prefMerchants,
                 collectVars, allVars, fileVars, selected, toggles, dirty, lastOp,
                 oddLeft>>

Next ==
  \/ GetPrefecturesName
  \/ PrefExpand
  \/ PrefWait
  \/ GetGenreElementHandles
  \/ GetGenreName
  \/ GenreSelect
  \/ GenreWait
  \/ SearchClick
  \/ SearchWaitForSelector
  \/ SearchDelay
  \/ SelectPageSize
  \/ PageSizeWait
  \/ ReadSearchResult
  \/ CollectStart
  \/ ReadPageNumber
  \/ EnumerateDetails
  \/ ExtractDetail
  \/ PushPicked
  \/ HasNextPageButton
  \/ NextClick
  \/ NextWaitForSelector
  \/ NextDelay
  \/ CollectReturn
  \/ SaveGenre
  \/ GenreDeselect
  \/ SaveAll
  \/ NextPrefLink
  \/ BrowserClose
  \/ SiteRender

Spec == Init /\ [][Next]_vars

\* Every awaited promise settles and the site finishes what it renders.
FairSpec == Spec /\ WF_vars(Next)

(***************************************************************************)
(* Properties                                                              *)
(***************************************************************************)
GenreLabelSet == {GenreLabels[i] : i \in 1..Len(GenreLabels)} \cup {"", Null}
CategoryPaths(pref) == {CsvPath(pref, l) : l \in GenreLabelSet}
AggregatePath(pref) == CsvPath(pref, "all")
IsRegionPath(pref, p) == p \in CategoryPaths(pref) \cup {AggregatePath(pref)}
\* The writes made for region pref, in order.
RegionWrites(pref) == SelectSeq(writes, LAMBDA p : IsRegionPath(pref, p))
Range(s) == {s[i] : i \in 1..Len(s)}

RECURSIVE SumLens(_)
SumLens(ps) == IF ps = <<>> THEN 0 ELSE Len(files[Head(ps)]) + SumLens(Tail(ps))

\* C1: when the pagination pass is about to return, it has enumerated the
\* pages 1..K once each, in order, K being the page that shows no next-page
\* control, and it returns as many records as those pages had rows: K*N
\* when every page had N rows.
C1_CollectAllCounts ==
  pc = "collect_return" =>
    /\ Len(visited) = uiPage
    /\ \A i \in 1..Len(visited) : visited[i].page = i
    /\ Len(merchants) = SumRows(visited)
    /\ \A n \in 0..MaxRows :
         (\A i \in 1..Len(visited) : visited[i].rows = n)
           => Len(merchants) = Len(visited) * n

C1_Witness ==
  /\ pc = "collect_return"
  /\ Len(visited) = 2
  /\ visited[1].rows = 2 /\ visited[2].rows = 2
  /\ Len(merchants) = 4

\* C2: when createMaps has saved a region with m categories, it has written
\* m + 1 files for it, all different: one per category, then the aggregate
\* "all", whose record count is the sum of the per-category counts.
C2_FilesPerRegion ==
  pc = "next_pref" =>
    LET w == RegionWrites(prefName)
        m == genreCount
    IN /\ Len(w) = m + 1
       /\ Cardinality(Range(w)) = m + 1
       /\ \A i \in 1..m : w[i] \in CategoryPaths(prefName)
       /\ w[m + 1] = AggregatePath(prefName)
       /\ Len(files[w[m + 1]]) = SumLens(SubSeq(w, 1, m))

C2_Witness ==
  /\ pc = "next_pref"
  /\ genreCount = 2
  /\ Len(writes) = 3
  /\ Len(files[writes[1]]) = 2 /\ Len(files[writes[2]]) = 1
  /\ Len(files[writes[3]]) = 3

\* C3: once a pagination pass has failed with an extraction or page-number
\* error, the run is over, the records the pass had gathered were not
\* returned (the region's list holds only the earlier categories' records)
\* and no file exists, or was ever written, for that category.
C3_FailedPassWritesNothing ==
  err \in {"ExtractionError", "PaginationReadError"} =>
    /\ pc = "error"
    /\ CsvPath(prefName, genreName) \notin DOMAIN files
    /\ CsvPath(prefName, genreName) \notin Range(writes)
    /\ Len(prefMerchants) = SumLens(RegionWrites(prefName))

C3_Witness ==
  /\ err = "ExtractionError"
  /\ Len(visited) = 2
  /\ Len(merchants) > 0

\* C4: no settled extraction holds a record whose name or address is null
\* or missing: a row without title or address text makes extract fail.
C4_ExtractNeverYieldsNull ==
  \A i \in 1..Len(picked) :
    picked[i] # Hole =>
      /\ picked[i].name \notin {Null, NoNode}
      /\ picked[i].address \notin {Null, NoNode}

\* C5 as stated: a pass over a single page returns one record per row, each
\* with a non-empty name, address and category.
C5_SinglePageNonEmpty ==
  (variant = MainTs /\ pc = "collect_return" /\ Len(visited) = 1) =>
    /\ Len(merchants) = visited[1].rows
    /\ \A i \in 1..Len(merchants) :
         /\ merchants[i].name \notin {Null, ""}
         /\ merchants[i].address \notin {Null, ""}
         /\ merchants[i].genre \notin {Null, ""}

\* C5 amended: a pass of the null-checked version over a single page returns
\* one record per row, each with a name, an address and a category that are
\* present (not null); an empty text is kept as it is.
C5_SinglePageNonNull ==
  (variant = MainTs /\ pc = "collect_return" /\ Len(visited) = 1) =>
    /\ Len(merchants) = visited[1].rows
    /\ \A i \in 1..Len(merchants) :
         /\ merchants[i].name # Null
         /\ merchants[i].address # Null
         /\ merchants[i].genre # Null

C5_Witness ==
  /\ variant = MainTs
  /\ pc = "collect_return"
  /\ Len(visited) = 1
  /\ Len(merchants) = 2
  /\ merchants[1].address = ""

PrefLabelSet == Range(PrefLabels) \cup {"", Null}
IsAggregate(p) == p \in {AggregatePath(l) : l \in PrefLabelSet}

\* Number of writes due once the first r regions are done: for each, one
\* per category and the aggregate.
RECURSIVE WritesThrough(_, _)
WritesThrough(log, r) ==
  IF r = 0 THEN 0 ELSE log[r] + 1 + WritesThrough(log, r - 1)

\* C6: a run over T targets that completes has written, region after
\* region, one file per category of the region and then its aggregate: T
\* aggregates in all, every path different, and nothing else.
C6_FilesPerRun ==
  pc = "done" =>
    /\ Len(genreLog) = numTargets
    /\ Len(writes) = WritesThrough(genreLog, numTargets)
    /\ Cardinality(Range(writes)) = Len(writes)
    /\ DOMAIN files = Range(writes)
    /\ \A i \in 1..Len(writes) :
         IsAggregate(writes[i])
           <=> \E r \in 1..numTargets : i = WritesThrough(genreLog, r)
    /\ Cardinality({i \in 1..Len(writes) : IsAggregate(writes[i])}) = numTargets

C6_Witness ==
  /\ pc = "done"
  /\ numTargets = 2
  /\ genreLog = <<2, 1>>
  /\ Len(writes) = 5

\* C7: an error ends the crawl.  The run sits in its error state, and from
\* then on no step changes the position, processes a category or a region,
\* writes a file, or issues a click, select or page advance: the only
\* operations still seen are the reads of extractions already started.
C7_ErrorEndsTheCrawl ==
  /\ [](err # "none" => pc = "error")
  /\ [][err # "none" =>
          /\ pc' = pc /\ err' = err
          /\ files' = files /\ writes' = writes
          /\ prefIdx' = prefIdx /\ genreIdx' = genreIdx
          /\ prefMerchants' = prefMerchants /\ merchants' = merchants
          /\ selected' = selected /\ toggles' = toggles
          /\ dirty' = dirty /\ clickDone' = clickDone
          /\ advances' = advances
          /\ (lastOp' # lastOp => lastOp'.kind = "read")]_vars

C7_Witness ==
  /\ err # "none"
  /\ pc = "error"
  /\ genreIdx < genreCount
  /\ prefIdx < numTargets
  /\ Len(writes) > 0

\* C8: every DOM read, click or select is issued with no state-changing
\* action unsettled, that is, after the wait that follows the last click or
\* select has resolved.  Stated for the runs over a single target, which is
\* what main's selectedPrefs holds.
C8_WaitBeforeDomOperation ==
  numTargets = 1 =>
    (lastOp.kind \in {"read", "click", "select"} => ~lastOp.unsettled)

\* C9: from its activation to its search and its save, the category in hand
\* is the only one toggled on; each category is toggled back before the next
\* is activated; after the loop every category was clicked exactly twice and
\* none is left on.
C9_OneCategorySelected ==
  /\ pc \in {"genre_wait", "search_all", "page_size", "page_size_wait",
              "search_text", "collect_start", "page_number", "enumerate",
              "extract", "has_next", "next_all", "collect_return", "save_genre",
              "genre_deselect"}
       => selected = {genreIdx}
  /\ pc \in {"genre_name", "genre_select"} =>
       /\ selected = {}
       /\ \A g \in 1..genreCount : toggles[g] = (IF g < genreIdx THEN 2 ELSE 0)
  /\ pc \in {"save_all", "next_pref"} =>
       /\ selected = {}
       /\ \A g \in 1..genreCount : toggles[g] = 2

C9_Witness ==
  /\ pc = "save_all"
  /\ genreCount = 2
  /\ toggles = <<2, 2>>
  /\ Len(writes) >= 2

InLoop == pc \in {"page_number", "enumerate", "extract", "has_next", "next_all"}

C10_Counts ==
  /\ pc = "collect_return" => ~hasNextPage /\ advances = nextTrue
  /\ pc = "next_all" => hasNextPage /\ nextTrue = advances + 1
  /\ pc \in {"page_number", "enumerate", "extract", "has_next"}
       => advances = nextTrue

\* C10: the pagination pass returns only right after hasNextPageButton
\* answered false, it has then advanced once for each answer of true, and a
\* pass whose site stops offering a next page ends (it returns or fails).
C10_LoopExit ==
  /\ []C10_Counts
  /\ (InLoop ~> ~InLoop)

C10_Witness ==
  /\ pc = "collect_return"
  /\ nextTrue = 1
  /\ advances = 1
  /\ Len(visited) = 2

AggregatesWritten == Cardinality({i \in 1..Len(writes) : IsAggregate(writes[i])})

\* C11: the next-region link is activated only by createMaps right after it
\* persisted the aggregate of the region in hand, once for every target, the
\* last one included; when the link is absent the run fails with
\* NavigationError, the region's category files and its aggregate being
\* already written.
C11_NextRegionAfterAggregate ==
  /\ [][prefIdx' # prefIdx =>
          /\ pc = "next_pref"
          /\ prefIdx' = prefIdx + 1
          /\ lastOp'.kind = "click"
          /\ writes # <<>>
          /\ writes[Len(writes)] = AggregatePath(prefName)
          /\ AggregatePath(prefName) \in DOMAIN files
          /\ AggregatesWritten = prefIdx
          /\ files' = files]_vars
  /\ [](pc \in {"close", "done"} => prefIdx = numTargets + 1)
  /\ [](errAt = "next_pref" <=> err = "NavigationError")
  /\ [](err = "NavigationError" =>
          /\ pc = "error"
          /\ Len(RegionWrites(prefName)) = genreCount + 1
          /\ writes[Len(writes)] = AggregatePath(prefName)
          /\ Range(RegionWrites(prefName)) \subseteq DOMAIN files)

C11_Witness ==
  /\ pc = "close"
  /\ numTargets = 2
  /\ prefIdx = 3
  /\ lastOp.kind = "click"
  /\ rendering = "region"
  /\ Len(writes) >= 4
  /\ IsAggregate(writes[Len(writes)])

\* C12: the page number held by the pagination loop is an integer: a
\* selected control whose text is not numeric makes the read fail instead of
\* handing NaN to the loop.
C12_PageNumberIsInteger ==
  /\ ~pageNumber.nan
  /\ errAt \in {"collect_start", "page_number"} => err = "PaginationReadError"

\* C13: the extractions of a page are all started together and settle in
\* any order; while one of them is pending the pass has not moved on (no
\* next-page click is issued or in flight) and the site still displays,
\* fully rendered, the page the rows were enumerated from.
C13_NoAdvanceWhilePending ==
  /\ pending # {} =>
       /\ pc \in {"extract", "error"}
       /\ pending \subseteq 1..Len(details)
       /\ ~clickDone
       /\ rendering = "none"
       /\ visited # <<>>
       /\ visited[Len(visited)].page = uiPage
       /\ visited[Len(visited)].rows = Len(details)
  /\ pc \in {"has_next", "next_all", "collect_return"} => pending = {}
  /\ pc = "extract" => Range(order) = (1..Len(details)) \ pending

C13_Witness ==
  /\ pc = "next_all"
  /\ clickDone
  /\ Len(details) = 2
  /\ order = <<2, 1>>
  /\ pending = {}

\* C14: every handle the crawler acts on (the region's entry, a category's
\* entry, its activation link) was obtained from the UI after the last
\* action that changed the UI tree: none comes from an earlier enumeration.
\* Stated for the runs over a single target, which is what main's
\* selectedPrefs holds.
C14_HandlesObtainedAfterLastChange ==
  numTargets = 1 => \A h \in acted : ~h.stale

\* C15: in the transition to the next page, the visibility wait resolves only
\* once the click has taken effect (the site has rendered the next page),
\* not on the list that was displayed before; and the pass goes back to
\* reading the page number only with click and wait resolved and the next
\* page rendered.
C15_AdvanceWaitsForNewList ==
  [][pc = "next_all" =>
       /\ (waitDone' /\ ~waitDone) => (clickDone /\ rendering = "none")
       /\ pc' = "page_number" => (clickDone /\ waitDone /\ rendering = "none")]_vars

\* C16: browser.close() is called exactly once on a run that processed every
\* target without error, as its last step, and never on a run that ended
\* with an error.
C16_ClosedOnceAfterSuccess ==
  /\ closes = (IF pc = "done" THEN 1 ELSE 0)
  /\ err # "none" => (closes = 0 /\ pc = "error")
  /\ closes > 0 =>
       /\ err = "none"
       /\ prefIdx = numTargets + 1
       /\ Len(genreLog) = numTargets
       /\ AggregatesWritten = numTargets

C16_Witness ==
  /\ pc = "done"
  /\ closes = 1
  /\ numTargets = 2
  /\ AggregatesWritten = 2

\* The steps of the category loop's body that can throw: those before the
\* category's file is written, and the deactivation click after it.
StepsBeforeSave ==
  {"genre_name", "genre_select", "search_all", "page_size", "search_text",
   "collect_start", "page_number", "extract", "next_all"}
CategorySteps == StepsBeforeSave \cup {"genre_deselect"}

\* What a failure leaves behind whatever the step: the files of the earlier
\* regions and those written for this region are in place, one per write,
\* and the region's aggregate was never written.
NoRollback(saved) ==
  LET w == RegionWrites(prefName)
  IN /\ Len(w) = saved
     /\ \A i \in 1..Len(w) : w[i] \in CategoryPaths(prefName)
     /\ AggregatePath(prefName) \notin Range(writes)
     /\ Len(writes) = WritesThrough(genreLog, prefIdx - 1) + saved
     /\ AggregatesWritten = prefIdx - 1
     /\ Cardinality(Range(writes)) = Len(writes)
     /\ DOMAIN files = Range(writes)

\* C17 as stated: when the processing of the j-th category of a region
\* fails, the files of the categories 1..j-1 of the region and all files of
\* the earlier regions are in place, and neither the file of category j nor
\* a later one nor the region's aggregate was written.
C17_FailedCategoryKeepsEarlierFiles ==
  errAt \in CategorySteps => NoRollback(genreIdx - 1)

\* C17 amended: as stated when the j-th category fails before its file is
\* written (label, activation, search, page size, summary, collection); when
\* it is the deactivation click that ends the loop body which fails, the
\* file of category j is in place too.  In both cases the earlier files
\* stay and the aggregate and the later categories' files are never written.
C17_NoRollbackOnFailure ==
  /\ errAt \in StepsBeforeSave => NoRollback(genreIdx - 1)
  /\ errAt = "genre_deselect" => NoRollback(genreIdx)
  /\ errAt \in CategorySteps => (pc = "error" /\ genreIdx \in 1..genreCount)

C17_Witness ==
  /\ errAt \in StepsBeforeSave
  /\ pc = "error"
  /\ prefIdx = 2
  /\ genreIdx = 2
  /\ Len(writes) >= 3
  /\ Len(RegionWrites(prefName)) = 1

\* The records of the rows of the page in hand, in enumeration order.
RowRecords ==
  [i \in 1..Len(details) |-> Extract(variant, details[i], genreName).val]

\* The contents of the files at the paths ps, one after the other.
RECURSIVE ConcatFiles(_)
ConcatFiles(ps) ==
  IF ps = <<>> THEN <<>> ELSE files[Head(ps)] \o ConcatFiles(Tail(ps))

\* C18: whatever the order in which the extractions of a page complete, the
\* page adds its rows' records to the pass's list in enumeration order,
\* after the records of the earlier pages; the pass's list is appended to
\* the region's and written as the category's file; and the aggregate is
\* the category files' contents one after the other, in the order the
\* categories were processed.
C18_OrderIndependentOfCompletion ==
  /\ [](pc = "has_next" => picked = RowRecords)
  /\ [][(pc = "extract" /\ pc' = "has_next")
          => merchants' = merchants \o RowRecords]_vars
  /\ [][(pc = "collect_return" /\ pc' = "save_genre")
          => prefMerchants' = prefMerchants \o merchants]_vars
  /\ [](pc = "genre_deselect"
          => files[CsvPath(prefName, genreName)] = merchants)
  /\ [](pc = "next_pref" =>
          LET w == RegionWrites(prefName)
          IN files[w[Len(w)]] = ConcatFiles(SubSeq(w, 1, Len(w) - 1)))

C18_Witness ==
  /\ pc = "has_next"
  /\ order = <<2, 1>>
  /\ Len(details) = 2
  /\ details[1] # details[2]
  /\ Len(merchants) = 4
  /\ SubSeq(merchants, 3, 4) = RowRecords
  /\ merchants[3] # merchants[4]

\* The positions at which a category is in hand, its label read.
LabelInHand ==
  {"genre_select", "genre_wait", "search_all", "page_size", "page_size_wait",
   "search_text", "collect_start", "page_number", "enumerate", "extract",
   "has_next", "next_all", "collect_return", "save_genre", "genre_deselect"}

\* C19: a record carries the label read for the category that is selected
\* when it is extracted; every record of the file written for a category
\* carries that category's label, and every record of a region's aggregate
\* carries the label of the category file of the region it also stands in.
C19_RecordsCarryTheirCategory ==
  /\ pc \in LabelInHand => genreName \in {GenreLabels[genreIdx], "", Null}
  /\ pc = "extract" => selected = {genreIdx}
  /\ \A i \in 1..Len(picked) : picked[i] # Hole => picked[i].genre = genreName
  /\ \A i \in 1..Len(merchants) : merchants[i].genre = genreName
  /\ \A p \in PrefLabelSet : \A l \in GenreLabelSet :
       CsvPath(p, l) \in DOMAIN files =>
         \A k \in 1..Len(files[CsvPath(p, l)]) :
           files[CsvPath(p, l)][k].genre = l
  /\ \A p \in PrefLabelSet :
       AggregatePath(p) \in DOMAIN files =>
         \A k \in 1..Len(files[AggregatePath(p)]) :
           \E l \in GenreLabelSet :
             /\ files[AggregatePath(p)][k].genre = l
             /\ CsvPath(p, l) \in DOMAIN files
             /\ files[AggregatePath(p)][k] \in Range(files[CsvPath(p, l)])

C19_Witness ==
  /\ pc = "next_pref"
  /\ genreCount = 2
  /\ Len(writes) = 3
  /\ Len(files[writes[3]]) = 2
  /\ files[writes[3]][1].genre = "G1"
  /\ files[writes[3]][2].genre = "G2"
  /\ files[writes[1]][1].genre = "G1"
  /\ files[writes[2]][1].genre = "G2"

====
